---- MODULE Spec2Model ----
(***************************************************************************)
(* Model of src/app.py: the Streamlit health-risk page.                    *)
(*                                                                         *)
(* Numbers.  Integer sliders (age, glucose, blood pressure, cholesterol,   *)
(* triglycerides) are integers.  The two float sliders (insulin, bmi) move *)
(* in steps of 0.01 and are held in hundredths, and so are their rows of   *)
(* the range table (2.6 is 260, 24.9 is 2490).  Risk values are IEEE-754   *)
(* binary64 numbers in [0, 2), held exactly as <<hi, lo>> with             *)
(* value = (hi * 2^28 + lo) * 2^-55.  Every weight and every partial sum   *)
(* of the program is a multiple of 2^-55, so the representation is exact   *)
(* and FAdd rounds to 53 significant bits, ties to even, as the hardware   *)
(* does.                                                                   *)
(***************************************************************************)
EXTENDS Integers, Sequences, FiniteSets, TLC

VARIABLES
    secrets,          \* st.secrets holds "api_key" (deployment configuration)
    compensated,      \* the interpreter's builtin sum() compensates float sums (CPython >= 3.12)
    ranges,           \* the module-level NORMAL_RANGES object
    widgets,          \* current values of the sidebar widgets
    client,           \* risk_manager.client of the last script run
    page,             \* what the last script run rendered: "idle", "results", "exception"
    patient_data,     \* the list built at line 343
    risk_score,
    risk_components,
    health_advice,
    risk_category,
    pdf_details,      \* the detail lines create_pdf_report put in the report
    api_call          \* what the chat-completion call of the last run did

vars == <<secrets, compensated, ranges, widgets, client, page, patient_data,
          risk_score, risk_components, health_advice, risk_category, pdf_details,
          api_call>>

----------------------------------------------------------------------------
(* binary64 arithmetic on the values the program produces *)

Base == 2^28

Zero == <<0, 0>>
One == <<134217728, 0>>
\* the literals 0.15, 0.1, 0.33, 0.66 as the doubles Python parses them to
F015 == <<20132659, 53687091>>
F010 == <<13421772, 214748365>>
F033 == <<44291850, 64424510>>
F066 == <<88583700, 128849020>>

Norm(hi, lo) ==
    IF lo >= Base THEN <<hi + 1, lo - Base>>
    ELSE IF lo < 0 THEN <<hi - 1, lo + Base>>
    ELSE <<hi, lo>>

\* spacing of doubles around x, in units of 2^-55
Quantum(x) ==
    IF x[1] < 2^25 THEN 1
    ELSE IF x[1] < 2^26 THEN 2
    ELSE IF x[1] < 2^27 THEN 4
    ELSE 8

RoundNearestEven(x) ==
    LET q == Quantum(x)
        r == x[2] % q
        down == x[2] - r
        up == (2 * r > q) \/ (2 * r = q /\ (down \div q) % 2 = 1)
    IN  IF r = 0 THEN x
        ELSE IF up THEN Norm(x[1], down + q)
        ELSE <<x[1], down>>

ExactAdd(a, b) == Norm(a[1] + b[1], a[2] + b[2])

FAdd(a, b) == RoundNearestEven(ExactAdd(a, b))

\* rounding error of a + b in units of 2^-55: what (a - t) + b computes
AddErr(a, b) ==
    LET e == ExactAdd(a, b)
        t == RoundNearestEven(e)
    IN  (e[1] - t[1]) * Base + (e[2] - t[2])

FLess(a, b) == a[1] < b[1] \/ (a[1] = b[1] /\ a[2] < b[2])

\* risk * weight, for the two values a risk component takes
FMul(risk, w) == IF risk = Zero THEN Zero ELSE w

\* min(a, b): the first argument unless the second is smaller
FMin(a, b) == IF FLess(b, a) THEN b ELSE a

RECURSIVE PlainSum(_, _)
PlainSum(acc, xs) ==
    IF xs = <<>> THEN acc ELSE PlainSum(FAdd(acc, Head(xs)), Tail(xs))

RECURSIVE NeumaierSum(_, _, _)
NeumaierSum(f_result, c, xs) ==
    IF xs = <<>>
    THEN IF c # 0 THEN RoundNearestEven(Norm(f_result[1], f_result[2] + c))
         ELSE f_result
    ELSE NeumaierSum(FAdd(f_result, Head(xs)), c + AddErr(f_result, Head(xs)), Tail(xs))

\* builtin sum() over floats, starting from the integer 0
PySum(xs, comp) == IF comp THEN NeumaierSum(Zero, 0, xs) ELSE PlainSum(Zero, xs)

----------------------------------------------------------------------------
(* the range table and the scorer *)

NORMAL_RANGES ==
    [ age |-> [ low_risk |-> << <<45, 55>> >>,
                medium_risk |-> << <<35, 65>> >>,
                high_risk |-> << <<0, 35>>, <<65, 100>> >> ],
      glucose |-> [ low_risk |-> << <<70, 100>> >>,
                    medium_risk |-> << <<100, 125>> >>,
                    high_risk |-> << <<125, 200>> >> ],
      insulin |-> [ low_risk |-> << <<260, 2490>> >>,
                    medium_risk |-> << <<2500, 5000>> >>,
                    high_risk |-> << <<0, 250>>, <<5000, 50000>> >> ],
      bmi |-> [ low_risk |-> << <<1850, 2490>> >>,
                medium_risk |-> << <<2500, 2990>>, <<1500, 1850>> >>,
                high_risk |-> << <<3000, 4000>>, <<0, 1500>> >> ],
      blood_pressure |-> [ low_risk |-> << <<90, 120, 60, 80>> >>,
                           medium_risk |-> << <<121, 139, 81, 89>> >>,
                           high_risk |-> << <<140, 200, 90, 120>> >> ],
      cholesterol |-> [ low_risk |-> << <<0, 200>> >>,
                        medium_risk |-> << <<200, 239>> >>,
                        high_risk |-> << <<240, 500>> >> ],
      triglycerides |-> [ low_risk |-> << <<0, 150>> >>,
                          medium_risk |-> << <<150, 199>> >>,
                          high_risk |-> << <<200, 500>> >> ] ]

\* keys of risk_components, in insertion order
ComponentKeys ==
    <<"age", "glucose", "insulin", "bmi", "blood_pressure", "cholesterol", "triglycerides">>

\* Python's seq[i]
At(seq, i) == seq[i + 1]

\* a scalar argument and a (systolic, diastolic) tuple argument
Scalar(x) == [tuple |-> FALSE, v |-> x]
Pair(s, d) == [tuple |-> TRUE, v |-> <<s, d>>]

\* the interval test with exclusive ends
RECURSIVE calculate_category_risk_exclusive(_, _)
calculate_category_risk_exclusive(value, categories) ==
    IF categories = <<>> THEN One
    ELSE LET category == Head(categories) IN
        IF value.tuple
        THEN IF /\ Len(category) = 4
                /\ category[1] < value.v[1] /\ value.v[1] < category[2]
                /\ category[3] < value.v[2] /\ value.v[2] < category[4]
             THEN Zero
             ELSE calculate_category_risk_exclusive(value, Tail(categories))
        ELSE IF /\ Len(category) = 2
                /\ category[1] < value.v /\ value.v < category[2]
             THEN Zero
             ELSE calculate_category_risk_exclusive(value, Tail(categories))

\* the band test with "or" between the two readings
RECURSIVE calculate_category_risk_either(_, _)
calculate_category_risk_either(value, categories) ==
    IF categories = <<>> THEN One
    ELSE LET category == Head(categories) IN
        IF value.tuple
        THEN IF /\ Len(category) = 4
                /\ \/ category[1] <= value.v[1] /\ value.v[1] <= category[2]
                   \/ category[3] <= value.v[2] /\ value.v[2] <= category[4]
             THEN Zero
             ELSE calculate_category_risk_either(value, Tail(categories))
        ELSE IF /\ Len(category) = 2
                /\ category[1] <= value.v /\ value.v <= category[2]
             THEN Zero
             ELSE calculate_category_risk_either(value, Tail(categories))

RECURSIVE calculate_category_risk(_, _)
calculate_category_risk(value, categories) ==
    IF categories = <<>> THEN One
    ELSE LET category == Head(categories) IN
        IF value.tuple
        THEN IF /\ Len(category) = 4
                /\ category[1] <= value.v[1] /\ value.v[1] <= category[2]
                /\ category[3] <= value.v[2] /\ value.v[2] <= category[4]
             THEN Zero
             ELSE calculate_category_risk(value, Tail(categories))
        ELSE IF /\ Len(category) = 2
                /\ category[1] <= value.v /\ value.v <= category[2]
             THEN Zero
             ELSE calculate_category_risk(value, Tail(categories))

\* the weight table with insulin left at 0.1
weights_short ==
    [ age |-> F015, glucose |-> F015, insulin |-> F010, bmi |-> F015,
      blood_pressure |-> F010, cholesterol |-> F015, triglycerides |-> F015 ]

weights ==
    [ age |-> F015, glucose |-> F015, insulin |-> F015, bmi |-> F015,
      blood_pressure |-> F010, cholesterol |-> F015, triglycerides |-> F015 ]

\* the unpacking of line 75 with age and glucose exchanged
components_of_swapped(data, table) ==
    [ age |-> calculate_category_risk(Scalar(At(data, 1)), table.age.low_risk),
      glucose |-> calculate_category_risk(Scalar(At(data, 0)), table.glucose.low_risk),
      insulin |-> calculate_category_risk(Scalar(At(data, 2)), table.insulin.low_risk),
      bmi |-> calculate_category_risk(Scalar(At(data, 3)), table.bmi.low_risk),
      blood_pressure |-> calculate_category_risk(Pair(At(data, 4), At(data, 5)),
                                                 table.blood_pressure.low_risk),
      cholesterol |-> calculate_category_risk(Scalar(At(data, 6)), table.cholesterol.low_risk),
      triglycerides |-> calculate_category_risk(Scalar(At(data, 7)),
                                                table.triglycerides.low_risk) ]

\* the age lookup reading the medium_risk tier
components_of_medium(data, table) ==
    [ age |-> calculate_category_risk(Scalar(At(data, 0)), table.age.medium_risk),
      glucose |-> calculate_category_risk(Scalar(At(data, 1)), table.glucose.low_risk),
      insulin |-> calculate_category_risk(Scalar(At(data, 2)), table.insulin.low_risk),
      bmi |-> calculate_category_risk(Scalar(At(data, 3)), table.bmi.low_risk),
      blood_pressure |-> calculate_category_risk(Pair(At(data, 4), At(data, 5)),
                                                 table.blood_pressure.low_risk),
      cholesterol |-> calculate_category_risk(Scalar(At(data, 6)), table.cholesterol.low_risk),
      triglycerides |-> calculate_category_risk(Scalar(At(data, 7)),
                                                table.triglycerides.low_risk) ]

\* patient_data here is the 8-element slice main passes (line 346)
components_of(data, table) ==
    [ age |-> calculate_category_risk(Scalar(At(data, 0)), table.age.low_risk),
      glucose |-> calculate_category_risk(Scalar(At(data, 1)), table.glucose.low_risk),
      insulin |-> calculate_category_risk(Scalar(At(data, 2)), table.insulin.low_risk),
      bmi |-> calculate_category_risk(Scalar(At(data, 3)), table.bmi.low_risk),
      blood_pressure |-> calculate_category_risk(Pair(At(data, 4), At(data, 5)),
                                                 table.blood_pressure.low_risk),
      cholesterol |-> calculate_category_risk(Scalar(At(data, 6)), table.cholesterol.low_risk),
      triglycerides |-> calculate_category_risk(Scalar(At(data, 7)),
                                                table.triglycerides.low_risk) ]

\* the sum stopping one item short
total_risk_of_short(components, w, comp) ==
    PySum([i \in 1..(Len(ComponentKeys) - 1) |->
              FMul(components[ComponentKeys[i]], w[ComponentKeys[i]])], comp)

\* sum(risk * weights[key] for key, risk in risk_components.items())
total_risk_of(components, w, comp) ==
    PySum([i \in 1..Len(ComponentKeys) |->
              FMul(components[ComponentKeys[i]], w[ComponentKeys[i]])], comp)

\* blood_pressure still weighted 0.25 as in the five-field table, and no min()
calculate_advanced_risk_unclamped(data, table, comp) ==
    LET components == components_of(data, table)
    IN  <<total_risk_of(components, [weights EXCEPT !.blood_pressure = <<33554432, 0>>], comp),
          components>>

calculate_advanced_risk(data, table, comp) ==
    LET components == components_of(data, table)
    IN  <<FMin(total_risk_of(components, weights, comp), One), components>>

----------------------------------------------------------------------------
(* the advice collaborator, the report and the page script *)

ConfigErrorAdvice == "API configuration error: Unable to generate recommendations."
GenerationErrorAdvice == "Recommendation generation error"
ChatContent == "chat completion content"

\* __init__: the client, or None when building it raises
new_client(has_key) == IF has_key THEN "Groq" ELSE "None"

\* what happened to chat.completions.create in a run
api_call_of(cl, api_raises) ==
    IF cl = "None" THEN "not_called" ELSE IF api_raises THEN "raised" ELSE "returned"

\* the method without its try/except
generate_health_recommendations_uncaught(cl, api_raises) ==
    IF cl = "None" THEN [exc |-> FALSE, val |-> ConfigErrorAdvice]
    ELSE IF api_raises THEN [exc |-> TRUE, val |-> GenerationErrorAdvice]
    ELSE [exc |-> FALSE, val |-> ChatContent]

\* result of the call: exc is TRUE when an exception leaves the method
generate_health_recommendations(cl, api_raises) ==
    IF cl = "None" THEN [exc |-> FALSE, val |-> ConfigErrorAdvice]
    ELSE IF api_raises THEN [exc |-> FALSE, val |-> GenerationErrorAdvice]
    ELSE [exc |-> FALSE, val |-> ChatContent]

\* the "Patient Details" lines; data is the 9-element list of line 343
create_pdf_report(data) ==
    [ Age |-> At(data, 1),
      Glucose_Level |-> At(data, 2),
      BMI |-> At(data, 3),
      Blood_Pressure |-> <<At(data, 4), At(data, 5)>>,
      Cholesterol |-> At(data, 6),
      Triglycerides |-> At(data, 7) ]

\* the thresholds compared with <=
risk_category_of_inclusive(score) ==
    IF ~FLess(F033, score) THEN "Low Risk"
    ELSE IF ~FLess(F066, score) THEN "Moderate Risk"
    ELSE "High Risk"

risk_category_of(score) ==
    IF FLess(score, F033) THEN "Low Risk"
    ELSE IF FLess(score, F066) THEN "Moderate Risk"
    ELSE "High Risk"

\* None, for a variable that otherwise holds a string, and for one that holds a
\* list, a float or a dict
NoValue == "None"
NoObject == <<>>

\* slider minimum, maximum and initial value (lines 332-339)
Sliders ==
    [ age |-> <<18, 100, 50>>,
      glucose |-> <<50, 200, 100>>,
      insulin |-> <<0, 50000, 2500>>,
      bmi |-> <<1000, 4000, 2500>>,
      systolic_bp |-> <<80, 200, 120>>,
      diastolic_bp |-> <<60, 130, 80>>,
      cholesterol |-> <<100, 500, 200>>,
      triglycerides |-> <<50, 500, 150>> ]

SliderNames == DOMAIN Sliders

DefaultWidgets ==
    [ patient_name |-> "",
      age |-> Sliders.age[3],
      glucose |-> Sliders.glucose[3],
      insulin |-> Sliders.insulin[3],
      bmi |-> Sliders.bmi[3],
      systolic_bp |-> Sliders.systolic_bp[3],
      diastolic_bp |-> Sliders.diastolic_bp[3],
      cholesterol |-> Sliders.cholesterol[3],
      triglycerides |-> Sliders.triglycerides[3] ]

\* slider positions explored: the initial position of each slider, and ends of
\* its low-risk interval with the first position outside them; between them
\* the sliders cover both inclusive ends and both sides of an interval
Positions ==
    [ age |-> {44, 45, 50},
      glucose |-> {69, 100, 101},
      insulin |-> {260, 2490, 2500},
      bmi |-> {1849, 1850, 2500},
      systolic_bp |-> {90, 120, 121},
      diastolic_bp |-> {60, 80, 81},
      cholesterol |-> {200, 201},
      triglycerides |-> {150, 151} ]

Names == {"", "Ann"}

\* one run of the script with the widget values w
main(w, pressed, api_raises) ==
    /\ client' = new_client(secrets)
    /\ IF ~pressed
       THEN /\ page' = "idle"
            /\ patient_data' = NoObject
            /\ risk_score' = NoObject
            /\ risk_components' = NoObject
            /\ health_advice' = NoValue
            /\ risk_category' = NoValue
            /\ pdf_details' = NoObject
            /\ api_call' = "not_called"
       ELSE LET data == <<w.patient_name, w.age, w.glucose, w.insulin, w.bmi,
                          w.systolic_bp, w.diastolic_bp, w.cholesterol, w.triglycerides>>
                risk == calculate_advanced_risk(Tail(data), ranges, compensated)
                advice == generate_health_recommendations(client', api_raises)
            IN  /\ patient_data' = data
                /\ risk_score' = risk[1]
                /\ risk_components' = risk[2]
                /\ api_call' = api_call_of(client', api_raises)
                /\ IF advice.exc
                   THEN /\ page' = "exception"
                        /\ health_advice' = NoValue
                        /\ risk_category' = NoValue
                        /\ pdf_details' = NoObject
                   ELSE /\ page' = "results"
                        /\ health_advice' = advice.val
                        /\ risk_category' = risk_category_of(risk[1])
                        /\ pdf_details' = create_pdf_report(data)

InitPage ==
    /\ secrets \in BOOLEAN
    /\ compensated \in BOOLEAN
    /\ widgets = DefaultWidgets
    /\ client = new_client(secrets)
    /\ page = "idle"
    /\ patient_data = NoObject
    /\ risk_score = NoObject
    /\ risk_components = NoObject
    /\ health_advice = NoValue
    /\ risk_category = NoValue
    /\ pdf_details = NoObject
    /\ api_call = "not_called"

Init == ranges = NORMAL_RANGES /\ InitPage

MoveSlider ==
    \E f \in SliderNames : \E v \in Positions[f] \ {widgets[f]} :
        /\ widgets' = [widgets EXCEPT ![f] = v]
        /\ main(widgets', FALSE, FALSE)
        /\ UNCHANGED <<secrets, compensated, ranges>>

EditName ==
    \E n \in Names \ {widgets.patient_name} :
        /\ widgets' = [widgets EXCEPT !.patient_name = n]
        /\ main(widgets', FALSE, FALSE)
        /\ UNCHANGED <<secrets, compensated, ranges>>

AssessHealthRisk ==
    \E api_raises \in BOOLEAN :
        /\ main(widgets, TRUE, api_raises)
        /\ UNCHANGED <<secrets, compensated, ranges, widgets>>

\* the download button reruns the script, and in that run st.button is False
DownloadReport ==
    /\ page = "results"
    /\ main(widgets, FALSE, FALSE)
    /\ UNCHANGED <<secrets, compensated, ranges, widgets>>

Next == MoveSlider \/ EditName \/ AssessHealthRisk \/ DownloadReport

Spec == Init /\ [][Next]_vars

----------------------------------------------------------------------------
(* the scorer under range tables that differ outside the low_risk tier *)

\* NORMAL_RANGES with the medium_risk and high_risk tiers exchanged
RetieredRanges ==
    [f \in DOMAIN NORMAL_RANGES |->
        [ low_risk |-> NORMAL_RANGES[f].low_risk,
          medium_risk |-> NORMAL_RANGES[f].high_risk,
          high_risk |-> NORMAL_RANGES[f].medium_risk ]]

RangeTables == {NORMAL_RANGES, RetieredRanges}

\* a table reduced to its low_risk tier
LowTierOnly(table) ==
    [f \in DOMAIN table |->
        [ low_risk |-> table[f].low_risk, medium_risk |-> <<>>, high_risk |-> <<>> ]]

InitRanges == ranges \in RangeTables /\ InitPage

SpecRanges == InitRanges /\ [][Next]_vars

----------------------------------------------------------------------------
(* the category expression of lines 354-358 on scores around its thresholds *)

MaxUlps == 16

\* x moved by u units of 2^-55
Shift(x, u) == Norm(x[1], x[2] + u)

ScoreSamples ==
    {Shift(F033, 2 * d) : d \in (0 - MaxUlps)..MaxUlps}
        \cup {Shift(F066, 4 * d) : d \in (0 - MaxUlps)..MaxUlps}

InitCategory ==
    /\ secrets \in BOOLEAN
    /\ compensated \in BOOLEAN
    /\ ranges = NORMAL_RANGES
    /\ widgets = DefaultWidgets
    /\ client = new_client(secrets)
    /\ page = "idle"
    /\ patient_data = NoObject
    /\ risk_score \in ScoreSamples
    /\ risk_components = NoObject
    /\ health_advice = NoValue
    /\ risk_category = NoValue
    /\ pdf_details = NoObject
    /\ api_call = "not_called"

ClassifyScore ==
    /\ page = "idle"
    /\ page' = "results"
    /\ risk_category' = risk_category_of(risk_score)
    /\ UNCHANGED <<secrets, compensated, ranges, widgets, client, patient_data,
                   risk_score, risk_components, health_advice, pdf_details, api_call>>

NextCategory == ClassifyScore

SpecCategory == InitCategory /\ [][NextCategory]_vars

----------------------------------------------------------------------------
(* properties *)

ScalarKeys == {"age", "glucose", "insulin", "bmi", "cholesterol", "triglycerides"}

\* v lies in some low_risk interval of field f, ends included
InLow(f, v) ==
    \E i \in DOMAIN NORMAL_RANGES[f].low_risk :
        NORMAL_RANGES[f].low_risk[i][1] <= v /\ v <= NORMAL_RANGES[f].low_risk[i][2]

\* the pair lies in some low_risk band
BandLow(s, d) ==
    \E i \in DOMAIN NORMAL_RANGES.blood_pressure.low_risk :
        LET band == NORMAL_RANGES.blood_pressure.low_risk[i]
        IN  /\ band[1] <= s /\ s <= band[2]
            /\ band[3] <= d /\ d <= band[4]

AllLow ==
    /\ \A f \in ScalarKeys : InLow(f, widgets[f])
    /\ BandLow(widgets.systolic_bp, widgets.diastolic_bp)

AllOutside ==
    /\ \A f \in ScalarKeys : ~InLow(f, widgets[f])
    /\ ~BandLow(widgets.systolic_bp, widgets.diastolic_bp)

\* a score to the nearest hundredth
Hundredths(x) == ((x[1] \div 128) * 100 + 2^19) \div 2^20

\* C1: every score the page shows lies in [0.0, 1.0]
C1_ScoreInUnitInterval ==
    page = "results" => ~FLess(risk_score, Zero) /\ ~FLess(One, risk_score)

C1_Witness ==
    /\ page = "results"
    /\ risk_score = One
    /\ widgets.age = 44

\* C2: when every scalar measurement is in its low_risk interval and the
\* pressure pair is in the low_risk band, the score is 0.0 and so is every
\* component
C2_AllLowScoresZero ==
    (page = "results" /\ AllLow) =>
        /\ risk_score = Zero
        /\ \A k \in DOMAIN risk_components : risk_components[k] = Zero

C2_Witness ==
    /\ page = "results"
    /\ AllLow
    /\ risk_score = Zero

\* C3: when every measurement is outside its low_risk intervals and the
\* pressure pair is outside the band, the score is the sum of the weights,
\* and that is 1.0
C3_AllOutsideScoresOne ==
    (page = "results" /\ AllOutside) =>
        /\ risk_score = PySum([i \in 1..Len(ComponentKeys) |-> weights[ComponentKeys[i]]],
                              compensated)
        /\ risk_score = One

C3_Witness ==
    /\ page = "results"
    /\ AllOutside
    /\ \A k \in DOMAIN risk_components : risk_components[k] = One

\* C4: the category is Low Risk exactly when score < 0.33, High Risk exactly
\* when score >= 0.66 and Moderate Risk between; 0.33 itself is Moderate Risk
\* and 0.66 itself is High Risk
C4_CategoryThresholds ==
    page = "results" =>
        /\ risk_category \in {"Low Risk", "Moderate Risk", "High Risk"}
        /\ risk_category = "Low Risk" <=> FLess(risk_score, F033)
        /\ risk_category = "High Risk" <=> ~FLess(risk_score, F066)
        /\ risk_score = F033 => risk_category = "Moderate Risk"
        /\ risk_score = F066 => risk_category = "High Risk"

C4_Witness ==
    /\ page = "results"
    /\ risk_score = F033
    /\ risk_category = "Moderate Risk"

\* C5: every press of the button renders the score and its category, whatever
\* the advice call did; a missing client or a raising call gives a substitute
\* message, and the score and components are those of the measurements alone
C5_AdviceFailureNonFatal ==
    [][AssessHealthRisk =>
          /\ page' = "results"
          /\ <<risk_score', risk_components'>>
                 = calculate_advanced_risk(<<widgets.age, widgets.glucose, widgets.insulin,
                                             widgets.bmi, widgets.systolic_bp,
                                             widgets.diastolic_bp, widgets.cholesterol,
                                             widgets.triglycerides>>, ranges, compensated)
          /\ risk_category' \in {"Low Risk", "Moderate Risk", "High Risk"}
          /\ api_call' = "not_called" => health_advice' = ConfigErrorAdvice
          /\ api_call' = "raised" => health_advice' = GenerationErrorAdvice
          /\ api_call' = "returned" => health_advice' = ChatContent]_vars

C5_Witness ==
    /\ page = "results"
    /\ api_call = "raised"
    /\ health_advice = GenerationErrorAdvice
    /\ risk_category = "Moderate Risk"

\* C6: the score is the sum of component times weight over the seven
\* components, 0.15 each and 0.10 for blood_pressure, clamped at 1.0; every
\* component has a weight and the weights sum to 1.0
C6_WeightedSum ==
    page = "results" =>
        LET w(k) == IF k = "blood_pressure" THEN F010 ELSE F015
            high == {k \in ScalarKeys : risk_components[k] = One}
            bp == IF risk_components.blood_pressure = One THEN 1 ELSE 0
        IN  /\ risk_score
                 = FMin(PySum([i \in 1..7 |-> FMul(risk_components[ComponentKeys[i]],
                                                   w(ComponentKeys[i]))], compensated), One)
            /\ Hundredths(risk_score) = 15 * Cardinality(high) + 10 * bp
            /\ DOMAIN weights = DOMAIN risk_components
            /\ PySum([i \in 1..7 |-> weights[ComponentKeys[i]]], compensated) = One

C6_Witness ==
    /\ page = "results"
    /\ risk_components.blood_pressure = One
    /\ risk_components.insulin = One
    /\ risk_components.triglycerides = One
    /\ Hundredths(risk_score) = 40

\* C7: a scalar component is 0.0 when the value is in a low_risk interval,
\* ends included, and 1.0 otherwise, however far outside the value is
C7_ScalarComponentBinary ==
    page = "results" =>
        \A f \in ScalarKeys :
            risk_components[f] = IF InLow(f, widgets[f]) THEN Zero ELSE One

C7_Witness ==
    /\ page = "results"
    /\ widgets.age = 45 /\ risk_components.age = Zero
    /\ widgets.insulin = 2490 /\ risk_components.insulin = Zero
    /\ widgets.glucose = 101 /\ risk_components.glucose = One

\* C8: the blood_pressure component is 0.0 exactly when one band holds both
\* readings, and 1.0 when either reading is outside
C8_PressureBand ==
    page = "results" =>
        /\ risk_components.blood_pressure = Zero
              <=> BandLow(widgets.systolic_bp, widgets.diastolic_bp)
        /\ risk_components.blood_pressure \in {Zero, One}

C8_Witness ==
    /\ page = "results"
    /\ widgets.systolic_bp = 121 /\ widgets.diastolic_bp = 80
    /\ risk_components.blood_pressure = One

\* C9: the score and components are those the low_risk tiers alone give, so
\* tables that agree on low_risk give the same result; no step changes the table
C9_OnlyLowTierRead ==
    [][/\ ranges' = ranges
       /\ page' = "results" =>
              <<risk_score', risk_components'>>
                 = calculate_advanced_risk(Tail(patient_data'), LowTierOnly(ranges'),
                                           compensated')]_vars

C9_Witness ==
    /\ page = "results"
    /\ ranges = RetieredRanges
    /\ widgets.age = 44
    /\ risk_components.age = One

\* C10: each detail line of the report carries the value entered for the
\* measurement its label names
C10_ReportLinesMatchEntries ==
    page = "results" =>
        /\ pdf_details.Age = widgets.age
        /\ pdf_details.Glucose_Level = widgets.glucose
        /\ pdf_details.BMI = widgets.bmi
        /\ pdf_details.Blood_Pressure = <<widgets.systolic_bp, widgets.diastolic_bp>>
        /\ pdf_details.Cholesterol = widgets.cholesterol
        /\ pdf_details.Triglycerides = widgets.triglycerides

====
